---- MODULE Spec2Model ----
(***************************************************************************)
(* Neural style transfer (train.py): the graph builder                     *)
(* get_style_model_and_losses and the optimisation driver                  *)
(* run_style_transfer, as a state machine.                                 *)
(*                                                                         *)
(* A layer name 'conv_3' is the pair <<"conv", 3>>; a module is a record   *)
(* [kind, id]; an nn.Sequential is the sequence of its [name, kind, id]    *)
(* nodes in registration order.                                            *)
(***************************************************************************)
EXTENDS Integers, Sequences, FiniteSets, TLC

VARIABLES
    cnn,             \* the extractor: the kinds of cnn.children(), in order
    content_layers,  \* configured content layer names
    style_layers,    \* configured style layer names
    model,           \* the nn.Sequential being built (local `model`)
    i,               \* the convolution counter (local `i`)
    pos,             \* index in cnn of the next layer the walk visits
    content_losses,  \* ids of the ContentLoss modules recorded, in order
    style_losses,    \* ids of the StyleLoss modules recorded, in order
    made,            \* probe modules constructed so far (the next id)
    built,           \* the graph as the walk left it, kept when it is trimmed
    bpc,             \* builder position: "walk", "returned", "raised"
    ret,             \* what the caller of the builder received: <<>> or
                     \* <<model, style_losses, content_losses>>
    pc,              \* driver position: "idle" (no driver), "build", "loop",
                     \* "step" (inside optimizer.step), "done", "failed"
    num_steps,       \* the step budget
    init_img,        \* input_img as it was passed in
    input_img,       \* the candidate image
    run,             \* run[0]
    outer,           \* calls of optimizer.step made so far
    evals,           \* closure evaluations made by the current optimizer.step
    dirty,           \* the optimizer wrote input_img since the last evaluation
    touched,         \* the optimizer has written input_img at least once
    fwd,             \* the image the latest forward pass read (<<>>: none yet)
    style_score,     \* closure's style_score after weighting
    content_score,   \* closure's content_score after weighting
    reports          \* progress reports printed

bvars == <<cnn, content_layers, style_layers, model, i, pos, content_losses,
           style_losses, made, built, bpc, ret>>

dvars == <<num_steps, init_img, input_img, run, outer, evals, dirty, touched, fwd,
           style_score, content_score, reports>>

vars == <<bvars, pc, dvars>>

----------------------------------------------------------------------------
(* Bounds *)

MaxLayers == 3

\* largest step budget of the short runs
MaxSteps == 1

\* most closure evaluations one optimizer.step makes
MaxEvalPerStep == 2

----------------------------------------------------------------------------
(* Layer kinds and names *)

RecognizedKinds == {"Conv2d", "ReLU", "MaxPool2d", "BatchNorm2d"}

LayerKinds == RecognizedKinds \cup {"Dropout"}

ProbeKinds == {"ContentLoss", "StyleLoss"}

Extractors(n) == UNION {[1..k -> LayerKinds] : k \in 0..n}

\* The names a caller may configure: a convolution and an activation that
\* share the counter value 1, a pooling layer, and a second convolution.
ProbeNames == {<<"conv", 1>>, <<"relu", 1>>, <<"pool", 1>>, <<"conv", 2>>}

content_layers_default == {<<"conv", 4>>}

style_layers_default == {<<"conv", k>> : k \in 1..5}

\* the isinstance chain without its pooling branch
RecognizedNoPool(kind) == kind \in {"Conv2d", "ReLU", "BatchNorm2d"}

\* isinstance chain of the walk: which branch names the layer
Recognized(kind) == kind \in RecognizedKinds

Prefix(kind) ==
    CASE kind = "Conv2d"      -> "conv"
      [] kind = "ReLU"        -> "relu"
      [] kind = "MaxPool2d"   -> "pool"
      [] kind = "BatchNorm2d" -> "bn"

\* i += 1 only for a convolution
NextI(kind, k) == IF kind = "Conv2d" THEN k + 1 ELSE k

LayerName(kind, k) == <<Prefix(kind), NextI(kind, k)>>

\* nn.Sequential(normalization): the first module is registered as '0'
InitModel == <<[name |-> <<"0">>, kind |-> "Normalization", id |-> 0]>>

\* Module.add_module(name, module): self._modules[name] = module. A new key
\* is appended; an existing key keeps its place and gets the new module.
AddModule(m, name, kind, id) ==
    LET node == [name |-> name, kind |-> kind, id |-> id]
    IN IF \E j \in 1..Len(m) : m[j].name = name
       THEN [j \in 1..Len(m) |-> IF m[j].name = name THEN node ELSE m[j]]
       ELSE Append(m, node)

IsProbe(node) == node.kind \in ProbeKinds

\* a trimming loop that walks upwards and stops at the first probe
TrimIndexFirst(m) ==
    IF \E j \in 1..Len(m) : IsProbe(m[j])
    THEN (CHOOSE j \in 1..Len(m) :
             /\ IsProbe(m[j])
             /\ \A l \in 1..(j-1) : ~IsProbe(m[l])) - 1
    ELSE 0

\* The trimming loop: i runs from len(model)-1 down to 0 and stops at the
\* first probe; with no probe it ends at 0. (0-based index, as in the code.)
TrimIndex(m) ==
    IF \E j \in 1..Len(m) : IsProbe(m[j])
    THEN (CHOOSE j \in 1..Len(m) :
             /\ IsProbe(m[j])
             /\ \A l \in (j+1)..Len(m) : ~IsProbe(m[l])) - 1
    ELSE 0

\* model[:(i + 1)]
Trimmed(m) == SubSeq(m, 1, TrimIndex(m) + 1)

----------------------------------------------------------------------------
(* get_style_model_and_losses *)

BuildInit(c, cl, sl) ==
    /\ cnn = c
    /\ content_layers = cl
    /\ style_layers = sl
    /\ model = InitModel
    /\ i = 0
    /\ pos = 1
    /\ content_losses = <<>>
    /\ style_losses = <<>>
    /\ made = 0
    /\ built = <<>>
    /\ bpc = "walk"
    /\ ret = <<>>

\* One iteration of `for layer in cnn.children()`
WalkLayer ==
    /\ bpc = "walk"
    /\ pos <= Len(cnn)
    /\ LET kind == cnn[pos] IN
       IF ~Recognized(kind)
       THEN /\ bpc' = "raised"
            /\ pc' = IF pc = "build" THEN "failed" ELSE pc
            /\ UNCHANGED <<model, i, pos, content_losses, style_losses, made>>
       ELSE LET k     == NextI(kind, i)
                name  == LayerName(kind, i)
                m1    == AddModule(model, name, kind, pos)
                isC   == name \in content_layers
                m2    == IF isC
                         THEN AddModule(m1, <<"content_loss", k>>, "ContentLoss", made + 1)
                         ELSE m1
                made2 == IF isC THEN made + 1 ELSE made
                isS   == name \in style_layers
                m3    == IF isS
                         THEN AddModule(m2, <<"style_loss", k>>, "StyleLoss", made2 + 1)
                         ELSE m2
                made3 == IF isS THEN made2 + 1 ELSE made2
            IN /\ i' = k
               /\ model' = m3
               /\ content_losses' = IF isC THEN Append(content_losses, made + 1)
                                    ELSE content_losses
               /\ style_losses' = IF isS THEN Append(style_losses, made2 + 1)
                                  ELSE style_losses
               /\ made' = made3
               /\ pos' = pos + 1
               /\ bpc' = "walk"
               /\ pc' = pc
    /\ UNCHANGED <<cnn, content_layers, style_layers, built, ret, dvars>>

\* The trimming loop and the return
Trim ==
    /\ bpc = "walk"
    /\ pos > Len(cnn)
    /\ built' = model
    /\ i' = TrimIndex(model)
    /\ model' = Trimmed(model)
    /\ ret' = <<Trimmed(model), style_losses, content_losses>>
    /\ bpc' = "returned"
    /\ UNCHANGED <<cnn, content_layers, style_layers, pos, content_losses,
                   style_losses, made, pc, dvars>>

----------------------------------------------------------------------------
(* Images and Python values *)

Pixels == {<<1, 1>>, <<1, 2>>}

\* pixel values: one below the valid range, its two ends, one above
PixelValues == -1..2

Images == [Pixels -> PixelValues]

ZeroImage == [p \in Pixels |-> 0]

\* a clamp that only enforces the lower end
ClampPixelLow(v) == IF v < 0 THEN 0 ELSE v

\* Tensor.clamp_(0, 1), elementwise
ClampPixel(v) == IF v < 0 THEN 0 ELSE IF v > 1 THEN 1 ELSE v

\* the clamp inside closure(), under torch.no_grad()
ClosureClampOff(img) == img

ClosureClamp(img) == [p \in Pixels |-> ClampPixel(img[p])]

\* the clamp after the loop
Clamp(img) == [p \in Pixels |-> ClampPixel(img[p])]

\* A Python number in the closure: the int literal 0 or a tensor
PyInt(v) == [tensor |-> FALSE, val |-> v]

Tensor(v) == [tensor |-> TRUE, val |-> v]

\* int + int is an int; anything with a tensor is a tensor
PyAdd(a, b) == [tensor |-> a.tensor \/ b.tensor, val |-> a.val + b.val]

\* score *= weight, the weight a Python int
PyMul(a, w) == [tensor |-> a.tensor, val |-> a.val * w]

\* only tensors have .backward() and .item()
HasTensorMethods(a) == a.tensor

style_weight == 100000

content_weight == 5

ReportEvery == 50

\* what a probe measures in a forward pass: no discrepancy, or some
LossValues == {0, 1}

\* for p in probes: score += p.loss, starting from the int 0; every probe
\* of the forward pass measured the discrepancy d
RECURSIVE SumLosses(_, _)
SumLosses(probes, d) ==
    IF probes = <<>> THEN PyInt(0)
    ELSE PyAdd(SumLosses(SubSeq(probes, 1, Len(probes) - 1), d), Tensor(d))

\* a loop condition that excludes the budget itself
LoopCondStrict(r, n) == r < n

\* a loop condition that runs one evaluation past the budget
LoopCondLate(r, n) == r <= n + 1

\* while run[0] <= num_steps
LoopCond(r, n) == r <= n

\* run[0] += 1
Incr(r) == r + 1

----------------------------------------------------------------------------
(* run_style_transfer *)

DriverIdle(n, img) ==
    /\ num_steps = n
    /\ init_img = img
    /\ input_img = img
    /\ run = 0
    /\ outer = 0
    /\ evals = 0
    /\ dirty = FALSE
    /\ touched = FALSE
    /\ fwd = <<>>
    /\ style_score = PyInt(0)
    /\ content_score = PyInt(0)
    /\ reports = 0

\* The builder returned: requires_grad_, eval(), the optimizer, run = [0]
Setup ==
    /\ pc = "build"
    /\ bpc = "returned"
    /\ pc' = "loop"
    /\ run' = 0
    /\ UNCHANGED <<bvars, num_steps, init_img, input_img, outer, evals, dirty,
                   touched, fwd, style_score, content_score, reports>>

\* The loop condition holds: optimizer.step(closure) is called
EnterStep ==
    /\ pc = "loop"
    /\ LoopCond(run, num_steps)
    /\ pc' = "step"
    /\ outer' = outer + 1
    /\ evals' = 0
    /\ dirty' = FALSE
    /\ UNCHANGED <<bvars, num_steps, init_img, input_img, run, touched, fwd,
                   style_score, content_score, reports>>

\* One evaluation of closure(), called by the optimizer
Closure ==
    /\ pc = "step"
    /\ evals < MaxEvalPerStep
    /\ \E ds \in LossValues, dc \in LossValues :
        LET img1 == ClosureClamp(input_img)
            ss   == PyMul(SumLosses(style_losses, ds), style_weight)
            cs   == PyMul(SumLosses(content_losses, dc), content_weight)
            loss == PyAdd(ss, cs)
            r1   == Incr(run)
        IN /\ input_img' = img1
           /\ fwd' = img1
           /\ style_score' = ss
           /\ content_score' = cs
           /\ IF ~HasTensorMethods(loss)
              THEN \* loss.backward() on an int
                   /\ pc' = "failed"
                   /\ UNCHANGED <<run, reports, evals>>
              ELSE /\ run' = r1
                   /\ evals' = evals + 1
                   /\ IF r1 % ReportEvery = 0
                      THEN IF HasTensorMethods(ss) /\ HasTensorMethods(cs)
                           THEN pc' = "step" /\ reports' = reports + 1
                           ELSE \* .item() on an int
                                pc' = "failed" /\ UNCHANGED reports
                      ELSE pc' = "step" /\ UNCHANGED reports
    /\ dirty' = FALSE
    /\ UNCHANGED <<bvars, num_steps, init_img, outer, touched>>

\* The optimizer writes new pixel values after an evaluation
OptimizerUpdate ==
    /\ pc = "step"
    /\ evals >= 1
    /\ ~dirty
    /\ input_img' \in Images
    /\ dirty' = TRUE
    /\ touched' = TRUE
    /\ UNCHANGED <<bvars, pc, num_steps, init_img, run, outer, evals, fwd,
                   style_score, content_score, reports>>

\* optimizer.step returns
StepReturn ==
    /\ pc = "step"
    /\ evals >= 1
    /\ pc' = "loop"
    /\ dirty' = FALSE
    /\ UNCHANGED <<bvars, num_steps, init_img, input_img, run, outer, evals,
                   touched, fwd, style_score, content_score, reports>>

\* The loop condition fails: the final clamp and the return
Finish ==
    /\ pc = "loop"
    /\ ~LoopCond(run, num_steps)
    /\ input_img' = Clamp(input_img)
    /\ pc' = "done"
    /\ UNCHANGED <<bvars, num_steps, init_img, run, outer, evals, dirty,
                   touched, fwd, style_score, content_score, reports>>

DriverKinds == {"Conv2d", "ReLU", "Dropout"}

\* the deepest convolution the default names ask for
DefaultDepth == CHOOSE k \in 1..5 : <<"conv", k>> \in content_layers_default

\* extractors from none up to just enough layers to hold every default
\* content layer
DriverExtractors == UNION {[1..k -> DriverKinds] : k \in 0..DefaultDepth}

\* stacks of convolutions only
ConvStacks == {[j \in 1..k |-> "Conv2d"] : k \in 0..DefaultDepth}

----------------------------------------------------------------------------
(* Specifications *)

\* the builder called on its own, with any configured names
Init ==
    /\ \E c \in Extractors(MaxLayers), cl \in SUBSET ProbeNames, sl \in SUBSET ProbeNames :
          BuildInit(c, cl, sl)
    /\ pc = "idle"
    /\ DriverIdle(0, ZeroImage)

Next == WalkLayer \/ Trim

Spec == Init /\ [][Next]_vars

\* run_style_transfer, which calls the builder with the default names
DriverInit ==
    /\ \E c \in DriverExtractors : BuildInit(c, content_layers_default, style_layers_default)
    /\ pc = "build"
    /\ \E n \in -1..MaxSteps, img \in Images : DriverIdle(n, img)

DriverNext ==
    \/ WalkLayer
    \/ Trim
    \/ Setup
    \/ EnterStep
    \/ Closure
    \/ OptimizerUpdate
    \/ StepReturn
    \/ Finish

DriverSpec == DriverInit /\ [][DriverNext]_vars

\* the driver from one initial image; it is sequential code, which keeps
\* executing until it returns or fails
FairInit ==
    /\ \E c \in DriverExtractors : BuildInit(c, content_layers_default, style_layers_default)
    /\ pc = "build"
    /\ \E n \in -1..MaxSteps : DriverIdle(n, ZeroImage)

DriverFairSpec == FairInit /\ [][DriverNext]_vars /\ WF_vars(DriverNext)

\* the same, with the smallest budget whose run reaches a progress report
ReportInit ==
    /\ \E c \in ConvStacks : BuildInit(c, content_layers_default, style_layers_default)
    /\ pc = "build"
    /\ DriverIdle(ReportEvery - 1, ZeroImage)

ReportSpec == ReportInit /\ [][DriverNext]_vars

----------------------------------------------------------------------------
(* The builder's claims *)

\* convolutions among the first p layers of c
RECURSIVE ConvsUpTo(_, _)
ConvsUpTo(c, p) ==
    IF p = 0 THEN 0
    ELSE ConvsUpTo(c, p - 1) + (IF c[p] = "Conv2d" THEN 1 ELSE 0)

\* the name the naming scheme gives layer p of c
NameAt(c, p) ==
    <<CASE c[p] = "Conv2d" -> "conv" [] c[p] = "ReLU" -> "relu"
        [] c[p] = "MaxPool2d" -> "pool" [] c[p] = "BatchNorm2d" -> "bn"
        [] OTHER -> "none",
      ConvsUpTo(c, p)>>

Configured == content_layers \cup style_layers

\* the last layer of c whose name is configured (0: none)
LastConfigured(c) ==
    IF \E p \in 1..Len(c) : NameAt(c, p) \in Configured
    THEN CHOOSE p \in 1..Len(c) :
            /\ NameAt(c, p) \in Configured
            /\ \A q \in (p+1)..Len(c) : NameAt(c, q) \notin Configured
    ELSE 0

\* probes the layers before position p ask for: one per layer and category
ProbesBefore(c, p) ==
    Cardinality({q \in 1..(p-1) : NameAt(c, q) \in content_layers})
      + Cardinality({q \in 1..(p-1) : NameAt(c, q) \in style_layers})

HasDropout(c) == \E p \in 1..Len(c) : c[p] = "Dropout"

FirstDropout(c) == CHOOSE p \in 1..Len(c) : c[p] = "Dropout" /\ \A q \in 1..(p-1) : c[q] # "Dropout"

ProbeNodes(m) == {j \in 1..Len(m) : IsProbe(m[j])}

\* C1: whenever the builder returns, the returned graph has as many nodes as
\* the extractor layers up to the last configured one, plus the
\* NormalizationStage, plus the probes created.
C1_NodeCount ==
    bpc = "returned" =>
        Len(ret[1]) = LastConfigured(cnn) + 1 + Len(style_losses) + Len(content_losses)

\* C2 as claimed: the returned graph is the prefix of the built graph that
\* ends at its last probe, so the returned graph's last node is a probe, for
\* every extractor and every choice of names.
C2_LastNodeIsProbe ==
    bpc = "returned" =>
        /\ ret[1] = SubSeq(built, 1, Len(ret[1]))
        /\ \A j \in (Len(ret[1]) + 1)..Len(built) : ~IsProbe(built[j])
        /\ IsProbe(ret[1][Len(ret[1])])

\* C2 amended: when the built graph holds a probe, the returned graph is its
\* prefix ending at the last probe; when it holds none, the returned graph is
\* the NormalizationStage alone.
C2_Truncation ==
    bpc = "returned" =>
        /\ ret[1] = SubSeq(built, 1, Len(ret[1]))
        /\ \A j \in (Len(ret[1]) + 1)..Len(built) : ~IsProbe(built[j])
        /\ IF ProbeNodes(built) # {}
           THEN IsProbe(ret[1][Len(ret[1])])
           ELSE ret[1] = InitModel

\* C2 witness: a build with two probes and layers behind the last one, which were cut
C2_Witness ==
    /\ bpc = "returned"
    /\ Cardinality(ProbeNodes(built)) >= 2
    /\ Len(built) > Len(ret[1])

\* C3 as claimed: an extractor with an unrecognized layer makes the builder
\* fail with nothing returned and before any probe was created or attached.
C3_NoProbeBeforeFailure ==
    (HasDropout(cnn) /\ bpc # "walk") =>
        /\ bpc = "raised"
        /\ ret = <<>>
        /\ made = 0
        /\ ProbeNodes(model) = {}

\* C3 amended: the builder fails when the walk reaches the first unrecognized
\* layer, with nothing returned; the probes created by then are those of
\* the configured layers before that layer, none for it or for a later one.
C3_FailsAtFirstUnrecognized ==
    (HasDropout(cnn) /\ bpc # "walk") =>
        /\ bpc = "raised"
        /\ ret = <<>>
        /\ pos = FirstDropout(cnn)
        /\ made = ProbesBefore(cnn, pos)
        /\ Len(content_losses) + Len(style_losses) = made

\* C3 witness: a failure after a probe was attached
C3_Witness ==
    /\ bpc = "raised"
    /\ made > 0
    /\ ProbeNodes(model) # {}

\* C10: every probe in the returned lists is a node of the returned graph,
\* and the graph holds as many probe nodes as the two lists hold probes.
C10_ProbesInGraph ==
    bpc = "returned" =>
        /\ \A n \in 1..Len(ret[3]) :
             \E j \in 1..Len(ret[1]) :
                ret[1][j].kind = "ContentLoss" /\ ret[1][j].id = ret[3][n]
        /\ \A n \in 1..Len(ret[2]) :
             \E j \in 1..Len(ret[1]) :
                ret[1][j].kind = "StyleLoss" /\ ret[1][j].id = ret[2][n]
        /\ Cardinality(ProbeNodes(ret[1])) = Len(ret[2]) + Len(ret[3])

----------------------------------------------------------------------------
(* The driver's claims *)

Built == bpc = "returned" /\ pc \in {"loop", "step", "done", "failed"}

ClampedInit == [p \in Pixels |-> IF init_img[p] < 0 THEN 0
                                  ELSE IF init_img[p] > 1 THEN 1 ELSE init_img[p]]

\* C4: when exactly one probe list is empty, no closure evaluation fails,
\* whatever the step budget, and the total loss is the score of the category
\* that is present.
C4_ToleratesMissingCategory ==
    (Built /\ ((style_losses = <<>>) # (content_losses = <<>>))) =>
        /\ pc # "failed"
        /\ (content_losses = <<>> => content_score.val = 0)
        /\ (style_losses = <<>> => style_score.val = 0)

\* C5: when both probe lists are empty, every closure evaluation yields a
\* total loss of zero without failing, the run completes, and the candidate
\* image stays the clamped initial image.
C5_NoProbesNoOp ==
    (Built /\ style_losses = <<>> /\ content_losses = <<>>) =>
        /\ pc # "failed"
        /\ style_score.val + content_score.val = 0
        /\ (fwd # <<>> => input_img = ClampedInit)

C9_OuterBoundedBySteps ==
    num_steps >= 0 => outer <= num_steps

Terminated == pc \in {"done", "failed"}

\* C9 amended: the driver terminates, the number of optimizer.step calls
\* never exceeds the budget plus one, and run[0] goes up by one in every
\* closure evaluation that completes and in no other step.
C9_Termination ==
    /\ [](num_steps >= 0 => outer <= num_steps + 1)
    /\ [][(evals' = evals + 1) <=> (run' = run + 1 /\ outer' = outer)]_vars
    /\ [][run' = run \/ run' = run + 1]_vars
    /\ <>Terminated

\* C9 witness: a finished run that used the whole budget plus one in single-evaluation
\* steps
C9_Witness ==
    /\ pc = "done"
    /\ num_steps >= 1
    /\ outer = num_steps + 1
    /\ run = outer

====
